---- MODULE Spec2Model ----
(***************************************************************************)
(* Verification model of bag/layout/core.py (class TechInfo):              *)
(*   - get_best_via_array / _via_better / get_via_info (via arrays)        *)
(*   - design_resistor (resistor sizing)                                    *)
(* All lengths are integers in resolution units unless stated otherwise.   *)
(***************************************************************************)
EXTENDS Integers, Sequences, FiniteSets, TLC

(***************************************************************************)
(* Bounds of the model.                                                    *)
(***************************************************************************)
\* bounding box width and height range over 0..MaxBox
MaxBox == 4

(***************************************************************************)
(* Small helpers.                                                          *)
(***************************************************************************)
Min2(a, b) == IF a < b THEN a ELSE b
Max2(a, b) == IF a > b THEN a ELSE b

\* min of component c over a sequence of pairs, starting at m0 (lines 679-682)
RECURSIVE SeqMinComp(_, _, _)
SeqMinComp(s, c, m0) ==
    IF s = <<>> THEN m0
    ELSE SeqMinComp(Tail(s), c, Min2(m0, Head(s)[c]))

(***************************************************************************)
(* Design-rule provider responses (get_via_drc_info).  A response is       *)
(* either a "no rule" signal (ValueError) for the bottom or the top        *)
(* lookup, or the pair of tuples the two lookups return.  From the bottom  *)
(* tuple the code keeps sp, sp2_list, sp3_list, dim, encb, arr_encb,       *)
(* arr_testb, from the top tuple enct, arr_enct, arr_testt.                *)
(* None is modelled by the has_* flags; an array predicate is the          *)
(* threshold test  rows >= r /\ cols >= c.                                 *)
(***************************************************************************)
NoTest == [r |-> 0, c |-> 0]

DrcInfo(sp, has2, sp2, has3, sp3, dim, encb, hasab, arrb, testb, enct, hasat, arrt, testt) ==
    [kind |-> "ok", sp |-> sp,
     has_sp2 |-> has2, sp2_list |-> sp2, has_sp3 |-> has3, sp3_list |-> sp3,
     dim |-> dim,
     encb |-> encb, has_arrb |-> hasab, arr_encb |-> arrb, arr_testb |-> testb,
     enct |-> enct, has_arrt |-> hasat, arr_enct |-> arrt, arr_testt |-> testt]

\* DummyTechInfo.get_via_drc_info
DummyDrc ==
    DrcInfo(<<0, 0>>, TRUE, << <<0, 0>> >>, TRUE, << <<0, 0>> >>, <<0, 0>>,
            << <<0, 0>> >>, FALSE, <<>>, NoTest,
            << <<0, 0>> >>, FALSE, <<>>, NoTest)

\* a lookup raised ValueError: nothing of the candidate's rules is kept
NoRule == [kind |-> "norule"]

OkRules ==
    { DummyDrc,
      \* unit cut, unit spacing, no richer regimes, no enclosure
      DrcInfo(<<1, 1>>, FALSE, <<>>, FALSE, <<>>, <<1, 1>>,
              << <<0, 0>> >>, FALSE, <<>>, NoTest,
              << <<0, 0>> >>, FALSE, <<>>, NoTest),
      \* unit cut, wider 2-neighbour and 3-neighbour spacings, end-of-line
      \* enclosures, array override on the bottom layer for 2 or more columns
      DrcInfo(<<0, 0>>, TRUE, << <<1, 0>>, <<0, 1>> >>, TRUE, << <<1, 1>>, <<0, 2>> >>, <<1, 1>>,
              << <<1, 0>>, <<0, 1>> >>, TRUE, << <<0, 0>> >>, [r |-> 1, c |-> 2],
              << <<0, 1>>, <<2, 0>> >>, FALSE, <<>>, NoTest),
      \* wide cut, abutting columns, enclosure only met by extending the metal
      DrcInfo(<<0, 1>>, FALSE, <<>>, TRUE, << <<2, 2>>, <<1, 1>> >>, <<2, 1>>,
              << <<2, 0>>, <<0, 2>> >>, FALSE, <<>>, NoTest,
              << <<0, 0>> >>, TRUE, << <<1, 1>> >>, [r |-> 2, c |-> 2]),
      \* tall cut, spacing 2 horizontally
      DrcInfo(<<2, 1>>, FALSE, <<>>, FALSE, <<>>, <<1, 2>>,
              << <<0, 0>> >>, FALSE, <<>>, NoTest,
              << <<1, 0>>, <<0, 1>> >>, FALSE, <<>>, NoTest),
      \* zero-size cut and zero spacing, enclosure wider than half the box
      DrcInfo(<<0, 0>>, FALSE, <<>>, FALSE, <<>>, <<0, 0>>,
              << <<MaxBox, MaxBox>> >>, FALSE, <<>>, NoTest,
              << <<MaxBox, MaxBox>> >>, FALSE, <<>>, NoTest) }


\* get_via_types: ordered (type, weight) candidates
get_via_types == << <<"square", 1>>, <<"vrect", 2>>, <<"hrect", 2>> >>

Dirs == {"x", "y", "z"}

(***************************************************************************)
(* get_best_via_array, lines 673-760: the optimum of one via type.         *)
(***************************************************************************)
\* lines 674-677: defaults of the richer spacing regimes
Sp2List(r) == IF r.has_sp2 THEN r.sp2_list ELSE << r.sp >>
Sp3List(r) == IF r.has_sp3 THEN r.sp3_list ELSE Sp2List(r)

\* lines 678-682: spacing floor of component c (1 = x, 2 = y)
SpMin(r, c) == SeqMinComp(Sp3List(r), c, SeqMinComp(Sp2List(r), c, r.sp[c]))

\* lines 684-685 raise ZeroDivisionError when a divisor is zero
DivByZero(r) == r.dim[1] + SpMin(r, 1) = 0 \/ r.dim[2] + SpMin(r, 2) = 0

\* line 684 without the spacing floor in the numerator
NxMaxNoSp(r, ww) == ww \div (r.dim[1] + SpMin(r, 1))

\* lines 684-685 (Python // is floor division; the divisor is positive here)
NxMax(r, ww) == (ww + SpMin(r, 1)) \div (r.dim[1] + SpMin(r, 1))
NyMax(r, hh) == (hh + SpMin(r, 2)) \div (r.dim[2] + SpMin(r, 2))

\* lines 690-691 with the tuples of one product in ascending order of a
NxyOfNumAscending(num, nxm, nym) ==
    SelectSeq([i \in 1..nxm |-> <<num, i, num \div i>>],
              LAMBDA t : t[2] * t[3] = num /\ t[3] <= nym)

\* lines 690-691: the tuples (num, a, num / a) with a in 1..nxm and num / a
\* in 1..nym, the larger a first
NxyOfNum(num, nxm, nym) ==
    SelectSeq([i \in 1..nxm |-> <<num, nxm + 1 - i, num \div (nxm + 1 - i)>>],
              LAMBDA t : t[2] * t[3] = num /\ t[3] <= nym)

\* lines 700-705: the spacing regime of (nx, ny)
SpCombo(r, nx, ny) ==
    IF nx = 2 /\ ny = 2 THEN Sp2List(r)
    ELSE IF nx > 1 /\ ny > 1 THEN Sp3List(r)
    ELSE << r.sp >>

\* lines 709-710: array bounding box
ArrDim(r, nx, ny, sp) ==
    << nx * (sp[1] + r.dim[1]) - sp[1], ny * (sp[2] + r.dim[2]) - sp[2] >>

\* line 717: arr_test(ny, nx), called with (rows, cols)
ArrTest(has, test, nx, ny) == has /\ ny >= test.r /\ nx >= test.c

\* lines 717-718 with the override list replacing the layer's list
TotEncListReplace(enc, has, arr_enc, test, nx, ny) ==
    IF ArrTest(has, test, nx, ny) THEN arr_enc ELSE enc

\* lines 717-718: the override list is appended to the layer's list
TotEncList(enc, has, arr_enc, test, nx, ny) ==
    IF ArrTest(has, test, nx, ny) THEN enc \o arr_enc ELSE enc

\* lines 720-731: enc_idx (1-based here) of a direction; anything but 'y'
\* takes the else branch
EncIdx(mdir) == IF mdir = "y" THEN 1 ELSE 2

\* lines 735-737 without the test of the extension dimension
EncPassesNoExtTest(enc, mdir, adim, ww, hh, ext) ==
    enc[EncIdx(mdir)] * 2 + adim[EncIdx(mdir)] <= (IF EncIdx(mdir) = 1 THEN ww ELSE hh)

\* lines 735-737: one enclosure entry passes
EncPasses(enc, mdir, adim, ww, hh, ext) ==
    LET enc_idx == EncIdx(mdir)
        enc_dim == adim[enc_idx]
        ext_dim == adim[3 - enc_idx]
        dim_lim == IF enc_idx = 1 THEN ww ELSE hh
        max_ext_dim == IF enc_idx = 1 THEN hh ELSE ww
        cur_ext_dim == ext_dim + 2 * enc[3 - enc_idx]
    IN  enc[enc_idx] * 2 + enc_dim <= dim_lim /\ (ext \/ cur_ext_dim <= max_ext_dim)

\* lines 733-740 with the enclosure counted on one side only in cur_ext_dim
RECURSIVE MinExtDimOneSide(_, _, _, _, _, _, _)
MinExtDimOneSide(tot, mdir, adim, ww, hh, ext, acc) ==
    IF tot = <<>> THEN acc
    ELSE LET enc == Head(tot)
             cur_ext_dim == adim[3 - EncIdx(mdir)] + enc[3 - EncIdx(mdir)]
             nacc == IF EncPasses(enc, mdir, adim, ww, hh, ext)
                        /\ (acc = -1 \/ acc > cur_ext_dim)
                     THEN cur_ext_dim ELSE acc
         IN  MinExtDimOneSide(Tail(tot), mdir, adim, ww, hh, ext, nacc)

\* lines 733-740: minimum cur_ext_dim over the passing entries, -1 for None
RECURSIVE MinExtDim(_, _, _, _, _, _, _)
MinExtDim(tot, mdir, adim, ww, hh, ext, acc) ==
    IF tot = <<>> THEN acc
    ELSE LET enc == Head(tot)
             cur_ext_dim == adim[3 - EncIdx(mdir)] + 2 * enc[3 - EncIdx(mdir)]
             nacc == IF EncPasses(enc, mdir, adim, ww, hh, ext)
                        /\ (acc = -1 \/ acc > cur_ext_dim)
                     THEN cur_ext_dim ELSE acc
         IN  MinExtDim(Tail(tot), mdir, adim, ww, hh, ext, nacc)

\* lines 742-749 without line 747: the extension is not raised to the box
LayerMdimNoMax(tot, mdir, adim, ww, hh, ext) ==
    LET enc_idx == EncIdx(mdir)
        dim_lim == IF enc_idx = 1 THEN ww ELSE hh
        m == MinExtDim(tot, mdir, adim, ww, hh, ext, -1)
    IN  IF m = -1 THEN [ok |-> FALSE, mdim |-> <<0, 0>>]
        ELSE [ok |-> TRUE,
              mdim |-> IF enc_idx = 1 THEN <<dim_lim, m>> ELSE <<m, dim_lim>>]

\* lines 742-749: the metal dimension of one layer; ok = FALSE for None
LayerMdim(tot, mdir, adim, ww, hh, ext) ==
    LET enc_idx == EncIdx(mdir)
        dim_lim == IF enc_idx = 1 THEN ww ELSE hh
        max_ext_dim == IF enc_idx = 1 THEN hh ELSE ww
        m == MinExtDim(tot, mdir, adim, ww, hh, ext, -1)
        e == Max2(m, max_ext_dim)
    IN  IF m = -1 THEN [ok |-> FALSE, mdim |-> <<0, 0>>]
        ELSE [ok |-> TRUE,
              mdim |-> IF enc_idx = 1 THEN <<dim_lim, e>> ELSE <<e, dim_lim>>]

\* lines 711-757: one (nx, ny, spacing) combination
Combo(r, nx, ny, sp, bdir, tdir, ww, hh, ext) ==
    LET adim == ArrDim(r, nx, ny, sp)
        b == LayerMdim(TotEncList(r.encb, r.has_arrb, r.arr_encb, r.arr_testb, nx, ny),
                       bdir, adim, ww, hh, ext)
        t == LayerMdim(TotEncList(r.enct, r.has_arrt, r.arr_enct, r.arr_testt, nx, ny),
                       tdir, adim, ww, hh, ext)
    IN  [ok |-> b.ok /\ t.ok, opt_nxy |-> <<nx, ny>>,
         opt_mdim_list |-> <<b.mdim, t.mdim>>, opt_adim |-> adim, opt_sp |-> sp]

NoOpt == [ok |-> FALSE, opt_nxy |-> <<0, 0>>, opt_mdim_list |-> << <<0, 0>>, <<0, 0>> >>,
          opt_adim |-> <<0, 0>>, opt_sp |-> <<0, 0>>]

\* lines 707-757: first passing spacing of the regime, in list order
RECURSIVE ScanSp(_, _, _, _, _, _, _, _, _)
ScanSp(r, nx, ny, sps, bdir, tdir, ww, hh, ext) ==
    IF sps = <<>> THEN NoOpt
    ELSE LET c == Combo(r, nx, ny, Head(sps), bdir, tdir, ww, hh, ext)
         IN  IF c.ok THEN c ELSE ScanSp(r, nx, ny, Tail(sps), bdir, tdir, ww, hh, ext)

\* lines 698-760 for the tuples of one product: first passing (nx, ny)
RECURSIVE ScanNum(_, _, _, _, _, _, _)
ScanNum(r, lst, bdir, tdir, ww, hh, ext) ==
    IF lst = <<>> THEN NoOpt
    ELSE LET e == Head(lst)
             c == ScanSp(r, e[2], e[3], SpCombo(r, e[2], e[3]), bdir, tdir, ww, hh, ext)
         IN  IF c.ok THEN c ELSE ScanNum(r, Tail(lst), bdir, tdir, ww, hh, ext)

\* lines 690-691 and 698-760: first passing (nx, ny) of the list
\* sorted(..., reverse=True) of the tuples (a * b, a, b), a in 1..nxm,
\* b in 1..nym: products from num down, and for one product the larger a
\* first (b is then determined)
RECURSIVE ScanNxy(_, _, _, _, _, _, _, _, _)
ScanNxy(r, num, nxm, nym, bdir, tdir, ww, hh, ext) ==
    IF num < 1 THEN NoOpt
    ELSE LET c == ScanNum(r, NxyOfNum(num, nxm, nym), bdir, tdir, ww, hh, ext)
         IN  IF c.ok THEN c ELSE ScanNxy(r, num - 1, nxm, nym, bdir, tdir, ww, hh, ext)

\* lines 673-760; range(1, n + 1) is empty for n < 1
TypeOpt(r, bdir, tdir, ww, hh, ext) ==
    IF NxMax(r, ww) < 1 \/ NyMax(r, hh) < 1 THEN NoOpt
    ELSE ScanNxy(r, NxMax(r, ww) * NyMax(r, hh), NxMax(r, ww), NyMax(r, hh),
                 bdir, tdir, ww, hh, ext)

(***************************************************************************)
(* _via_better, lines 778-789.                                             *)
(***************************************************************************)
\* the resolution is ResNum / ResDen layout units (DummyTechInfo: 0.001)
ResNum == 1
ResDen == 1000

\* Python 3 int(round(n / d)) for n >= 0, d > 0: ties go to the even integer
RoundDiv(n, d) ==
    LET q == n \div d
        rem == n % d
    IN  IF 2 * rem < d THEN q
        ELSE IF 2 * rem > d THEN q + 1
        ELSE IF q % 2 = 0 THEN q ELSE q + 1

\* lines 783-784: int(round(mdim[0] / res)) * int(round(mdim[1] / res))
MetalArea(mdim) == RoundDiv(mdim[1] * ResDen, ResNum) * RoundDiv(mdim[2] * ResDen, ResNum)

\* lines 781-789, the loop over the two layers; i is the layer, better the flag
RECURSIVE ViaBetterFrom(_, _, _, _)
ViaBetterFrom(mdim_list1, mdim_list2, i, better) ==
    IF i > Len(mdim_list1) THEN better
    ELSE LET area1 == MetalArea(mdim_list1[i])
             area2 == MetalArea(mdim_list2[i])
         IN  IF area1 < area2 THEN ViaBetterFrom(mdim_list1, mdim_list2, i + 1, TRUE)
             ELSE IF area1 > area2 THEN FALSE
             ELSE ViaBetterFrom(mdim_list1, mdim_list2, i + 1, better)

\* lines 781-789 returning at the first layer of smaller area
ViaBetterFirstSmaller(mdim_list1, mdim_list2) ==
    IF MetalArea(mdim_list1[1]) < MetalArea(mdim_list2[1]) THEN TRUE
    ELSE IF MetalArea(mdim_list1[1]) > MetalArea(mdim_list2[1]) THEN FALSE
    ELSE MetalArea(mdim_list1[2]) < MetalArea(mdim_list2[2])

_via_better(mdim_list1, mdim_list2) == ViaBetterFrom(mdim_list1, mdim_list2, 1, FALSE)

(***************************************************************************)
(* State.                                                                  *)
(***************************************************************************)
VARIABLES
    w, h,            \* bbox.w, bbox.h
    bot_dir,         \* bottom direction argument
    top_dir,         \* top direction argument ("none" for None), rebound at line 876
    extend,          \* extend argument
    vpc,             \* position: "start", "loop", "done", "error", "info"
    idx,             \* index into get_via_types of the next candidate
    drc,             \* provider responses of the candidates processed so far
    best,            \* best_num, best_nxy, ... (found = FALSE: best_num is None)
    via_result,      \* value returned by get_best_via_array
    via_info         \* value returned by get_via_info

via_vars == <<w, h, bot_dir, top_dir, extend, vpc, idx, drc, best,
              via_result, via_info>>

VARIABLES
    rin,             \* arguments of design_resistor and the provider's data
    npar_iter,       \* the BinaryIterator of the outer loop
    rpc,             \* position: "idle", "loop", "done", "error"
    npass,           \* passes of the loop at line 999 made so far, modulo 2
    res_result       \* value returned by design_resistor

res_vars == <<rin, npar_iter, rpc, npass, res_result>>

vars == <<via_vars, res_vars>>

\* the sizer is not in use
ResIdle ==
    /\ rin = [num_even |-> FALSE]
    /\ npar_iter = [low |-> 0]
    /\ rpc = "idle"
    /\ npass = 0
    /\ res_result = [found |-> FALSE]

\* lines 653-659
BestInit ==
    [found |-> FALSE, best_num |-> 0, best_nxy |-> <<-1, -1>>,
     best_mdim_list |-> << <<0, 0>>, <<0, 0>> >>, best_type |-> "none",
     best_vdim |-> <<0, 0>>, best_sp |-> <<0, 0>>, best_adim |-> <<0, 0>>]

NoInfo == [found |-> FALSE]

ViaInit ==
    /\ w \in 0..MaxBox
    /\ h \in 0..MaxBox
    /\ bot_dir \in Dirs
    /\ top_dir \in {"none", "x", "y"}
    /\ extend \in BOOLEAN
    /\ vpc = "start"
    /\ idx = 1
    /\ drc = <<>>
    /\ best = BestInit
    /\ via_result = BestInit
    /\ via_info = NoInfo
    /\ ResIdle

\* get_via_info lines 875-879 and get_best_via_array lines 644-660
ViaCall ==
    /\ vpc = "start"
    /\ top_dir' = IF top_dir = "none"
                  THEN (IF bot_dir = "y" THEN "x" ELSE "y")
                  ELSE top_dir
    /\ vpc' = "loop"
    /\ UNCHANGED <<w, h, bot_dir, extend, idx, drc, best, via_result, via_info, res_vars>>

\* lines 762-772 without the comparison at lines 764-765
BestUpdateAlways(b, r, vtype, weight, opt) ==
    IF opt.ok
    THEN [found |-> TRUE, best_num |-> weight * opt.opt_nxy[1] * opt.opt_nxy[2],
          best_nxy |-> opt.opt_nxy, best_mdim_list |-> opt.opt_mdim_list,
          best_type |-> vtype, best_vdim |-> r.dim, best_sp |-> opt.opt_sp,
          best_adim |-> opt.opt_adim]
    ELSE b

\* lines 762-772: the update of the best result by one type's optimum
BestUpdate(b, r, vtype, weight, opt) ==
    LET opt_num == weight * opt.opt_nxy[1] * opt.opt_nxy[2]
    IN  IF opt.ok /\ (\/ ~b.found
                      \/ opt_num > b.best_num
                      \/ (opt_num = b.best_num
                          /\ _via_better(opt.opt_mdim_list, b.best_mdim_list)))
        THEN [found |-> TRUE, best_num |-> opt_num, best_nxy |-> opt.opt_nxy,
              best_mdim_list |-> opt.opt_mdim_list, best_type |-> vtype,
              best_vdim |-> r.dim, best_sp |-> opt.opt_sp, best_adim |-> opt.opt_adim]
        ELSE b

\* lines 661-671 with the best result forgotten at a skipped candidate
SkipUpdateReset(b) == BestInit

\* lines 661-671: a lookup raises ValueError, the candidate is skipped
SkipUpdate(b) == b

\* line 664: the bottom lookup raises
ViaSkipBot ==
    /\ vpc = "loop"
    /\ idx <= Len(get_via_types)
    /\ drc' = Append(drc, NoRule)
    /\ best' = SkipUpdate(best)
    /\ idx' = idx + 1
    /\ UNCHANGED <<w, h, bot_dir, top_dir, extend, vpc, via_result, via_info, res_vars>>

\* line 665: the bottom lookup answers (any rules), the top lookup raises
ViaSkipTop ==
    /\ vpc = "loop"
    /\ idx <= Len(get_via_types)
    /\ \E r \in OkRules : drc' = Append(drc, NoRule)
    /\ best' = SkipUpdate(best)
    /\ idx' = idx + 1
    /\ UNCHANGED <<w, h, bot_dir, top_dir, extend, vpc, via_result, via_info, res_vars>>

\* lines 684-685 raise ZeroDivisionError, which leaves both functions
ViaDivError ==
    /\ vpc = "loop"
    /\ idx <= Len(get_via_types)
    /\ \E r \in OkRules :
          /\ DivByZero(r)
          /\ drc' = Append(drc, r)
    /\ vpc' = "error"
    /\ UNCHANGED <<w, h, bot_dir, top_dir, extend, idx, best, via_result, via_info, res_vars>>

\* lines 661-772: one candidate with rules
ViaEval ==
    /\ vpc = "loop"
    /\ idx <= Len(get_via_types)
    /\ \E r \in OkRules :
          /\ ~DivByZero(r)
          /\ drc' = Append(drc, r)
          /\ LET opt == TypeOpt(r, bot_dir, top_dir, w, h, extend)
             IN  best' = BestUpdate(best, r, get_via_types[idx][1], get_via_types[idx][2], opt)
    /\ idx' = idx + 1
    /\ UNCHANGED <<w, h, bot_dir, top_dir, extend, vpc, via_result, via_info, res_vars>>

\* lines 774-776
ViaReturn ==
    /\ vpc = "loop"
    /\ idx > Len(get_via_types)
    /\ via_result' = best
    /\ vpc' = "done"
    /\ UNCHANGED <<w, h, bot_dir, top_dir, extend, idx, drc, best, via_info, res_vars>>

\* per-via EM limits (idc, iac_rms, iac_peak) returned by get_via_em_specs
ViaEmSpecs == { <<1, 2, 3>>, <<2, 2, 0>> }

\* get_via_info lines 880-944; the bbox centre is the origin, bw and tw are
\* kept in resolution units (the code multiplies them by the resolution)
BuildViaInfo(res, bdir, em) ==
    LET nx == res.best_nxy[1]
        ny == res.best_nxy[2]
        wbot_norm == res.best_mdim_list[1][1]
        hbot_norm == res.best_mdim_list[1][2]
        wtop_norm == res.best_mdim_list[2][1]
        htop_norm == res.best_mdim_list[2][2]
        warr_norm == res.best_adim[1]
        harr_norm == res.best_adim[2]
        enc1_x == (wbot_norm - warr_norm) \div 2
        enc1_y == (hbot_norm - harr_norm) \div 2
        enc2_x == (wtop_norm - warr_norm) \div 2
        enc2_y == (htop_norm - harr_norm) \div 2
        bot_xl_norm == 0 - wbot_norm \div 2
        bot_yb_norm == 0 - hbot_norm \div 2
        top_xl_norm == 0 - wtop_norm \div 2
        top_yb_norm == 0 - htop_norm \div 2
        ntot == nx * ny
    IN  [found |-> TRUE,
         bw |-> IF bdir = "x" THEN hbot_norm ELSE wbot_norm,
         tw |-> IF bdir = "x" THEN wtop_norm ELSE htop_norm,
         array |-> (nx > 1 \/ ny > 1),
         per_via |-> em,
         idc |-> em[1] * ntot, iac_rms |-> em[2] * ntot, iac_peak |-> em[3] * ntot,
         num_rows |-> ny, num_cols |-> nx,
         sp_rows |-> res.best_sp[2], sp_cols |-> res.best_sp[1],
         enc1 |-> <<enc1_x, enc1_x, enc1_y, enc1_y>>,
         enc2 |-> <<enc2_x, enc2_x, enc2_y, enc2_y>>,
         cut_width |-> res.best_vdim[1], cut_height |-> res.best_vdim[2],
         bot_box |-> <<bot_xl_norm, bot_yb_norm, bot_xl_norm + wbot_norm,
                       bot_yb_norm + hbot_norm>>,
         top_box |-> <<top_xl_norm, top_yb_norm, top_xl_norm + wtop_norm,
                       top_yb_norm + htop_norm>>]

\* lines 880-882: no solution found
ViaInfoNone ==
    /\ vpc = "done"
    /\ ~via_result.found
    /\ via_info' = NoInfo
    /\ vpc' = "info"
    /\ UNCHANGED <<w, h, bot_dir, top_dir, extend, idx, drc, best, via_result, res_vars>>

\* lines 884-944
ViaInfo ==
    /\ vpc = "done"
    /\ via_result.found
    /\ \E em \in ViaEmSpecs : via_info' = BuildViaInfo(via_result, bot_dir, em)
    /\ vpc' = "info"
    /\ UNCHANGED <<w, h, bot_dir, top_dir, extend, idx, drc, best, via_result, res_vars>>

ViaNext ==
    \/ ViaCall
    \/ ViaSkipBot
    \/ ViaSkipTop
    \/ ViaDivError
    \/ ViaEval
    \/ ViaReturn
    \/ ViaInfoNone
    \/ ViaInfo


(***************************************************************************)
(* bag.util.search.BinaryIterator: the search is over an index, the value  *)
(* tried is index * step + offset; high = -1 stands for None (unbounded).  *)
(***************************************************************************)
BinaryIterator(low, bounded, high, step) ==
    LET nmax0 == (high - low) \div step
        nmax == IF low + step * nmax0 < high THEN nmax0 + 1 ELSE nmax0
    IN  [offset |-> low, step |-> step, low |-> 0,
         high |-> IF bounded THEN nmax ELSE -1,
         current |-> IF bounded THEN nmax \div 2 ELSE 0,
         saved |-> FALSE, save_info |-> <<0, 0, 0>>]

has_next(it) == it.high = -1 \/ it.low < it.high
get_next(it) == it.current * it.step + it.offset

up(it) ==
    [it EXCEPT !.low = it.current + 1,
               !.current = IF it.high # -1 THEN (it.current + 1 + it.high) \div 2
                           ELSE IF it.current > 0 THEN it.current * 2 ELSE 1]

down(it) ==
    [it EXCEPT !.high = it.current,
               !.current = (it.low + it.current) \div 2]

save_info(it, info) == [it EXCEPT !.saved = TRUE, !.save_info = info]

(***************************************************************************)
(* design_resistor, lines 980-1048.  The bounds of the resistor type are   *)
(* given in half resolution units (wmin2 = 2 * wmin / resolution, ...), so *)
(* that the rounding at lines 986-989 has ties to decide; res_targ / rsq   *)
(* and min_nsq are the rationals res_targ / rsq and min_nsq2 / 2.  The EM  *)
(* limit of one current kind is coef * width (0: the provider reports 0,   *)
(* -1: the provider reports infinity), in the unit of the requested        *)
(* currents per half resolution unit of width.                             *)
(***************************************************************************)
CeilDiv(n, d) == -((-n) \div d)

\* line 992 rounding the maximum width up to even instead of down
wmax_unit_up(r) == -2 * ((-RoundDiv(r.wmax2, 2)) \div 2)

\* lines 986-992
wmin_unit(r) == -2 * ((-RoundDiv(r.wmin2, 2)) \div 2)
wmax_unit(r) == 2 * (RoundDiv(r.wmax2, 2) \div 2)
lmin_unit(r) == RoundDiv(r.lmin2, 2)
lmax_unit(r) == RoundDiv(r.lmax2, 2)

\* get_res_em_specs for a width of w2 half resolution units: one limit
EmLimit(coef, w2) == [inf |-> coef = -1, val |-> IF coef = -1 THEN 0 ELSE coef * w2]

\* lines 1006 and 1021 without the test 0.0 < res_i: a zero limit blocks
LimitViolatedZeroBlocks(lim, cur, npar) == ~lim.inf /\ lim.val * npar < cur

\* lines 1006 and 1021:  0.0 < res_i < i / npar  for one current kind
LimitViolated(lim, cur, npar) == ~lim.inf /\ 0 < lim.val /\ lim.val * npar < cur

\* lines 1006-1007 and 1021-1022: any of the three kinds
EmViolated(r, w2, npar) ==
    \/ LimitViolated(EmLimit(r.em[1], w2), r.cur[1], npar)
    \/ LimitViolated(EmLimit(r.em[2], w2), r.cur[2], npar)
    \/ LimitViolated(EmLimit(r.em[3], w2), r.cur[3], npar)

\* line 1014
LcurUnit(r, npar, wcur) == CeilDiv(r.res_targ * npar * wcur, r.rsq)

\* line 1015
LengthTooShort(r, npar, wcur) ==
    LcurUnit(r, npar, wcur) < Max2(lmin_unit(r), CeilDiv(r.min_nsq2 * wcur, 2))

\* lines 1012-1026: the inner loop
RECURSIVE WidthSearch(_, _, _)
WidthSearch(r, npar, w_iter) ==
    IF ~has_next(w_iter) THEN w_iter
    ELSE LET wcur == get_next(w_iter)
         IN  IF LengthTooShort(r, npar, wcur)
             THEN WidthSearch(r, npar, down(w_iter))
             ELSE IF EmViolated(r, 2 * wcur, npar)
                  THEN WidthSearch(r, npar, up(w_iter))
                  ELSE WidthSearch(r, npar,
                                   down(save_info(w_iter,
                                                  <<npar, wcur, LcurUnit(r, npar, wcur)>>)))

\* lines 1011-1028: w_info, with the parallel count in front
WInfo(r, npar) ==
    WidthSearch(r, npar, BinaryIterator(wmin_unit(r), TRUE, wmax_unit(r) + 1, 2))

\* lines 1005-1007: the pre-check at the maximum width wmax
PreCheckFails(r, npar) == EmViolated(r, r.wmax2, npar)

\* largest parallel count the model follows
MaxNpar == 16

\* npar_iter.up() at lines 1008 and 1031.  The counts grow without bound; a
\* count beyond MaxNpar is folded onto the last count tried (the iterator is
\* left as it is), so a loop that goes on raising the count goes on here too
NparUp(it) == IF get_next(up(it)) > MaxNpar THEN it ELSE up(it)
\* largest width and length bounds, in resolution units
MaxWidth == 4
MaxLength == 6

ResInputs ==
    { [num_even |-> e, wmin2 |-> a, wmax2 |-> b, lmin2 |-> c, lmax2 |-> d,
       res_targ |-> t, rsq |-> q, min_nsq2 |-> m, cur |-> i, em |-> k] :
        e \in BOOLEAN,
        a \in {2, 3, 5, 6}, b \in {4, 6, 2 * MaxWidth - 1, 3 * MaxWidth},
        c \in {2, 5, 2 * MaxLength - 2}, d \in {2 * MaxLength - 1, 2 * MaxLength},
        t \in {1, 3}, q \in {1, 2}, m \in {1, 2, 6},
        i \in { <<0, 0, 0>>, <<MaxNpar, 0, 0>>, <<0, 2 * MaxNpar, MaxNpar>> },
        k \in { <<0, 0, 0>>, <<1, 1, 1>>, <<-1, 1, 0>> } }

\* lines 995-998 with an odd start in even mode
NparIterOddStart(num_even) ==
    IF num_even THEN BinaryIterator(1, FALSE, 0, 2) ELSE BinaryIterator(1, FALSE, 0, 1)

\* lines 995-998
NparIter(num_even) ==
    IF num_even THEN BinaryIterator(2, FALSE, 0, 2) ELSE BinaryIterator(1, FALSE, 0, 1)

ResInit ==
    /\ rin \in { r \in ResInputs : r.wmin2 <= r.wmax2 /\ r.lmin2 <= r.lmax2 }
    /\ npar_iter = NparIter(rin.num_even)
    /\ rpc = "loop"
    /\ npass = 0
    /\ res_result = [found |-> FALSE]

\* idle values of the via variables
ViaIdle ==
    /\ w = 0 /\ h = 0 /\ bot_dir = "x" /\ top_dir = "none" /\ extend = FALSE
    /\ vpc = "idle" /\ idx = 1 /\ drc = <<>>
    /\ best = BestInit /\ via_result = BestInit /\ via_info = NoInfo

\* lines 999-1008: the pre-check fails, more parallel resistors
ResPreCheckUp ==
    /\ rpc = "loop"
    /\ has_next(npar_iter)
    /\ PreCheckFails(rin, get_next(npar_iter))
    /\ npar_iter' = NparUp(npar_iter)
    /\ npass' = 1 - npass
    /\ UNCHANGED <<rin, rpc, res_result, via_vars>>

\* lines 1011-1031: no width found, more parallel resistors
ResNoWidth ==
    /\ rpc = "loop"
    /\ has_next(npar_iter)
    /\ ~PreCheckFails(rin, get_next(npar_iter))
    /\ ~WInfo(rin, get_next(npar_iter)).saved
    /\ npar_iter' = NparUp(npar_iter)
    /\ npass' = 1 - npass
    /\ UNCHANGED <<rin, rpc, res_result, via_vars>>

\* lines 1011-1035: a width found, saved, fewer parallel resistors
ResSolution ==
    /\ rpc = "loop"
    /\ has_next(npar_iter)
    /\ ~PreCheckFails(rin, get_next(npar_iter))
    /\ LET w_iter == WInfo(rin, get_next(npar_iter))
       IN  /\ w_iter.saved
           /\ npar_iter' = down(save_info(npar_iter, w_iter.save_info))
    /\ npass' = 1 - npass
    /\ UNCHANGED <<rin, rpc, res_result, via_vars>>

\* lines 1038-1048; widths and lengths of the result are kept in
\* resolution units (the code multiplies by resolution * layout_unit)
ResAnswer(r, info) ==
    LET num_par == info[1]
        wopt_unit == info[2]
        lopt_unit == info[3]
        num_ser == IF lopt_unit > lmax_unit(r) THEN CeilDiv(lopt_unit, lmax_unit(r)) ELSE 1
        \* line 1042: round(lopt_unit / num_ser / resolution) * resolution
        lopt == IF lopt_unit > lmax_unit(r)
                THEN RoundDiv(lopt_unit * ResDen, num_ser * ResNum)
                ELSE lopt_unit
    IN  [found |-> TRUE, num_par |-> num_par, num_ser |-> num_ser,
         w |-> wopt_unit, l |-> lopt, lopt_unit |-> lopt_unit]

\* line 999 leaves the loop; line 1038 raises TypeError on a None
ResReturn ==
    /\ rpc = "loop"
    /\ ~has_next(npar_iter)
    /\ IF npar_iter.saved
       THEN /\ res_result' = ResAnswer(rin, npar_iter.save_info)
            /\ rpc' = "done"
       ELSE /\ res_result' = res_result
            /\ rpc' = "error"
    /\ UNCHANGED <<rin, npar_iter, npass, via_vars>>

ResNext ==
    \/ ResPreCheckUp
    \/ ResNoWidth
    \/ ResSolution
    \/ ResReturn

(***************************************************************************)
(* Specifications.                                                         *)
(***************************************************************************)
ViaSpec == ViaInit /\ [][ViaNext]_vars

ResSpecInit == ResInit /\ ViaIdle
ResSpec == ResSpecInit /\ [][ResNext]_vars

\* the loop of design_resistor runs on while it has a next count to try;
\* checked on the inputs with one target, sheet resistance and length range
ResFairInit ==
    /\ ResSpecInit
    /\ rin.res_targ = 1 /\ rin.rsq = 1 /\ rin.min_nsq2 = 1
    /\ rin.lmin2 = 2 /\ rin.lmax2 = 2 * MaxLength
ResFairSpec == ResFairInit /\ [][ResNext]_vars /\ WF_vars(ResNext)

Init == ViaInit \/ ResSpecInit
Next == ViaNext \/ ResNext
Spec == Init /\ [][Next]_vars

(***************************************************************************)
(* get_best_via_array as a function of the candidates that have rules:     *)
(* cands is a sequence of <<vtype, weight, rules>>.                        *)
(***************************************************************************)
RECURSIVE SearchCandidates(_, _, _, _, _, _, _)
SearchCandidates(cands, b, bdir, tdir, ww, hh, ext) ==
    IF cands = <<>> THEN b
    ELSE LET c == Head(cands)
             opt == TypeOpt(c[3], bdir, tdir, ww, hh, ext)
             nb == BestUpdate(b, c[3], c[1], c[2], opt)
         IN  SearchCandidates(Tail(cands), nb, bdir, tdir, ww, hh, ext)

\* the candidates of get_via_types whose two lookups answered, in order
RECURSIVE CandsWithRules(_, _)
CandsWithRules(d, i) ==
    IF i > Len(d) THEN <<>>
    ELSE IF d[i].kind = "ok"
         THEN << <<get_via_types[i][1], get_via_types[i][2], d[i]>> >> \o CandsWithRules(d, i + 1)
         ELSE CandsWithRules(d, i + 1)

\* get_best_via_array has just returned a result
Returned == vpc = "done" /\ via_result.found
ValidDirs == bot_dir \in {"x", "y"} /\ top_dir \in {"x", "y"}

InvalidInput == w <= 0 \/ h <= 0 \/ bot_dir \notin {"x", "y"} \/ top_dir \notin {"x", "y"}

\* the rules of the returned via type
TypeIndex(vtype) == CHOOSE i \in 1..Len(get_via_types) : get_via_types[i][1] = vtype
ResultRules == drc[TypeIndex(via_result.best_type)]

(***************************************************************************)
(* C1: with extend = FALSE the returned array fits the box on both axes:   *)
(* cols*(via_w+sp_x)-sp_x <= box_w and rows*(via_h+sp_y)-sp_y <= box_h,    *)
(* (sp_x, sp_y) being the returned spacing.                                *)
(***************************************************************************)
C1_ArrayFitsBox ==
    (Returned /\ ~extend) =>
        LET cols == via_result.best_nxy[1]
            rows == via_result.best_nxy[2]
            via_w == via_result.best_vdim[1]
            via_h == via_result.best_vdim[2]
            sp_x == via_result.best_sp[1]
            sp_y == via_result.best_sp[2]
        IN  /\ cols * (via_w + sp_x) - sp_x <= w
            /\ rows * (via_h + sp_y) - sp_y <= h

\* a 2x2 or larger array returned with extend = FALSE and equal directions
C1_Witness ==
    /\ Returned /\ ~extend /\ bot_dir = top_dir
    /\ via_result.best_nxy[1] >= 2 /\ via_result.best_nxy[2] >= 2

(***************************************************************************)
(* C2: rules, candidates, directions and extend fixed: a box at least as   *)
(* large on both axes yields a result and its via count rows*cols is not   *)
(* smaller (original statement), resp. its weighted count                  *)
(* weight*rows*cols is not smaller (amended statement).                    *)
(***************************************************************************)
ResultFor(ww, hh) ==
    SearchCandidates(CandsWithRules(drc, 1), BestInit, bot_dir, top_dir, ww, hh, extend)

ViaCount(b) == b.best_nxy[1] * b.best_nxy[2]

C2_CountMonotone ==
    Returned =>
        \A ww \in w..MaxBox, hh \in h..MaxBox :
            LET larger == ResultFor(ww, hh)
            IN  larger.found /\ ViaCount(larger) >= ViaCount(via_result)

C2_WeightedCountMonotone ==
    Returned =>
        \A ww \in w..MaxBox, hh \in h..MaxBox :
            LET larger == ResultFor(ww, hh)
            IN  larger.found /\ larger.best_num >= via_result.best_num

\* a larger box whose result has a larger weighted count but fewer vias
C2_Witness ==
    /\ Returned
    /\ \E ww \in w..MaxBox, hh \in h..MaxBox :
          LET larger == ResultFor(ww, hh)
          IN  larger.best_num > via_result.best_num /\ ViaCount(larger) < ViaCount(via_result)

(***************************************************************************)
(* C3: for each layer of a result there is an enclosure entry, from the    *)
(* layer's base list or, only when the layer's array predicate holds for   *)
(* the returned (rows, cols), from the base list extended by the override  *)
(* list, with 2*enc_perp + array_extent_perp <= box_dim_perp; the override *)
(* is added to the base list: a candidate never does worse than with its   *)
(* override removed.                                                       *)
(***************************************************************************)
PerpFits(enc, mdir, adim) ==
    IF mdir = "y" THEN 2 * enc[1] + adim[1] <= w ELSE 2 * enc[2] + adim[2] <= h

SeqToSet(sq) == { sq[i] : i \in 1..Len(sq) }

LayerEntries(base, has, override, test) ==
    SeqToSet(base) \cup
        (IF has /\ via_result.best_nxy[2] >= test.r /\ via_result.best_nxy[1] >= test.c
         THEN SeqToSet(override) ELSE {})

WithoutOverride(r) == [r EXCEPT !.has_arrb = FALSE, !.has_arrt = FALSE]

C3_EnclosureRule ==
    (Returned /\ ValidDirs) =>
        LET r == ResultRules
            adim == << via_result.best_nxy[1] * (r.dim[1] + via_result.best_sp[1])
                          - via_result.best_sp[1],
                       via_result.best_nxy[2] * (r.dim[2] + via_result.best_sp[2])
                          - via_result.best_sp[2] >>
        IN  /\ \E enc \in LayerEntries(r.encb, r.has_arrb, r.arr_encb, r.arr_testb) :
                  PerpFits(enc, bot_dir, adim)
            /\ \E enc \in LayerEntries(r.enct, r.has_arrt, r.arr_enct, r.arr_testt) :
                  PerpFits(enc, top_dir, adim)
            /\ \A i \in 1..Len(drc) :
                  drc[i].kind = "ok" =>
                      LET o == TypeOpt(WithoutOverride(drc[i]), bot_dir, top_dir, w, h, extend)
                      IN  o.ok => via_result.best_num >=
                                     get_via_types[i][2] * o.opt_nxy[1] * o.opt_nxy[2]

\* a result whose top array predicate holds while no override entry fits
C3_Witness ==
    /\ Returned /\ ValidDirs
    /\ ResultRules.has_arrt
    /\ via_result.best_nxy[2] >= ResultRules.arr_testt.r
    /\ via_result.best_nxy[1] >= ResultRules.arr_testt.c
    /\ \A enc \in SeqToSet(ResultRules.arr_enct) :
          ~PerpFits(enc, top_dir, via_result.best_adim)

(***************************************************************************)
(* C4: the result has the largest weight*rows*cols of the per-type         *)
(* optima; a later candidate with the same weight*rows*cols replaces the   *)
(* kept one only if its metal area is <= on both layers and < on at least  *)
(* one, otherwise the earlier candidate is kept.                           *)
(***************************************************************************)
LayerArea(mdim) == mdim[1] * mdim[2]

\* weight*rows*cols of candidate i's optimum, 0 when it has none
WeightedOpt(i) ==
    IF drc[i].kind # "ok" THEN 0
    ELSE LET o == TypeOpt(drc[i], bot_dir, top_dir, w, h, extend)
         IN  IF o.ok THEN get_via_types[i][2] * o.opt_nxy[1] * o.opt_nxy[2] ELSE 0

\* area <= on both layers and < on at least one
AreaLeBothLtOne(m1, m2) ==
    /\ LayerArea(m1[1]) <= LayerArea(m2[1])
    /\ LayerArea(m1[2]) <= LayerArea(m2[2])
    /\ (LayerArea(m1[1]) < LayerArea(m2[1]) \/ LayerArea(m1[2]) < LayerArea(m2[2]))

\* the step that processes candidate idx, whose lookups answered
C4_Step ==
    (vpc = "loop" /\ idx' = idx + 1 /\ drc'[idx].kind = "ok") =>
        LET o == TypeOpt(drc'[idx], bot_dir, top_dir, w, h, extend)
            num == get_via_types[idx][2] * o.opt_nxy[1] * o.opt_nxy[2]
            replaced == best'.found /\ best'.best_type = get_via_types[idx][1]
        IN  /\ replaced <=>
                  /\ o.ok
                  /\ \/ ~best.found
                     \/ num > best.best_num
                     \/ num = best.best_num
                        /\ AreaLeBothLtOne(o.opt_mdim_list, best.best_mdim_list)
            /\ ~replaced => best' = best
            /\ replaced => /\ best'.best_num = num
                           /\ best'.best_nxy = o.opt_nxy
                           /\ best'.best_mdim_list = o.opt_mdim_list

\* the returned value is the kept one and has the largest weighted count
C4_Largest ==
    vpc' = "done" =>
        /\ via_result' = best
        /\ \A i \in 1..Len(drc) : WeightedOpt(i) <= best.best_num
        /\ best.found => best.best_num = WeightedOpt(TypeIndex(best.best_type))

C4_BestAcrossTypes == [][C4_Step /\ C4_Largest]_vars

\* a later candidate ties with an earlier one and replaces it
C4_Witness ==
    /\ Returned
    /\ \E i \in 1..Len(drc) :
          /\ i < TypeIndex(via_result.best_type)
          /\ WeightedOpt(i) = via_result.best_num

\* a later candidate ties with the returned one and does not replace it
C4_WitnessKept ==
    /\ Returned
    /\ \E j \in 1..Len(drc) :
          /\ j > TypeIndex(via_result.best_type)
          /\ WeightedOpt(j) = via_result.best_num

\* a later candidate ties with the returned one, is smaller on the bottom
\* layer and larger on the top layer, and does not replace it
C4_WitnessIncomparable ==
    /\ Returned
    /\ \E j \in 1..Len(drc) :
          /\ j > TypeIndex(via_result.best_type)
          /\ WeightedOpt(j) = via_result.best_num
          /\ LET o == TypeOpt(drc[j], bot_dir, top_dir, w, h, extend)
             IN  /\ LayerArea(o.opt_mdim_list[1]) < LayerArea(via_result.best_mdim_list[1])
                 /\ LayerArea(o.opt_mdim_list[2]) > LayerArea(via_result.best_mdim_list[2])

(***************************************************************************)
(* C5: whenever no candidate has a feasible (rows, cols, spacing)          *)
(* combination, get_best_via_array returns None without raising and        *)
(* get_via_info returns None too, also for zero via dimensions and         *)
(* spacings.                                                               *)
(***************************************************************************)
\* both layers have an enclosure entry that passes for (nx, ny, sp)
ComboFeasible(r, nx, ny, sp) ==
    LET adim == << nx * (r.dim[1] + sp[1]) - sp[1], ny * (r.dim[2] + sp[2]) - sp[2] >>
        tb == IF r.has_arrb /\ ny >= r.arr_testb.r /\ nx >= r.arr_testb.c
              THEN SeqToSet(r.encb) \cup SeqToSet(r.arr_encb) ELSE SeqToSet(r.encb)
        tt == IF r.has_arrt /\ ny >= r.arr_testt.r /\ nx >= r.arr_testt.c
              THEN SeqToSet(r.enct) \cup SeqToSet(r.arr_enct) ELSE SeqToSet(r.enct)
    IN  /\ \E enc \in tb : EncPasses(enc, bot_dir, adim, w, h, extend)
        /\ \E enc \in tt : EncPasses(enc, top_dir, adim, w, h, extend)

\* counts up to MaxBox + 1 per axis cover every box of the model
Feasible(r) ==
    /\ r.kind = "ok"
    /\ \E nx \in 1..(MaxBox + 1), ny \in 1..(MaxBox + 1) :
          \E sp \in SeqToSet(SpCombo(r, nx, ny)) : ComboFeasible(r, nx, ny, sp)

NoCandidateFeasible == \A i \in 1..Len(drc) : ~Feasible(drc[i])

C5_NotFoundNoError ==
    (NoCandidateFeasible /\ ~InvalidInput) =>
        /\ vpc # "error"
        /\ vpc = "done" => ~via_result.found
        /\ vpc = "info" => ~via_info.found

(***************************************************************************)
(* C6: a candidate whose lookup signals "no rule" is skipped: the step     *)
(* leaves the best result so far unchanged and the search goes on, and the *)
(* returned value equals the search over the candidates that have rules.   *)
(***************************************************************************)
C6_SkipStep ==
    (vpc = "loop" /\ idx' = idx + 1 /\ drc'[idx].kind = "norule") =>
        best' = best /\ vpc' = "loop"

C6_SameAsFiltered ==
    vpc' = "done" =>
        via_result' = SearchCandidates(CandsWithRules(drc, 1), BestInit,
                                       bot_dir, top_dir, w, h, extend)

C6_SkipNoRule == [][C6_SkipStep /\ C6_SameAsFiltered]_vars

\* a result found after a skipped candidate that followed a kept one
C6_Witness ==
    /\ Returned
    /\ drc[1].kind = "ok" /\ drc[2].kind = "norule" /\ drc[3].kind = "ok"
    /\ via_result.best_type = "square"
    /\ WeightedOpt(3) > 0

(***************************************************************************)
(* C7: a non-positive box width or height, or a direction that is neither  *)
(* "x" nor "y", ends in an error: no via result and no not-found value is  *)
(* returned.                                                               *)
(***************************************************************************)
C7_InvalidInputFails == (vpc \in {"done", "info"}) => ~InvalidInput

(***************************************************************************)
(* C8: when no parallel count and unit width are feasible (here: the       *)
(* even-rounded minimum width exceeds the even-rounded maximum width),     *)
(* design_resistor finishes and returns "not found": it neither raises at  *)
(* the unpacking of the saved solution nor raises the count forever.       *)
(***************************************************************************)
NoWidthAtAll(r) == wmin_unit(r) > wmax_unit(r)

C8_Infeasible == rpc = "loop" /\ NoWidthAtAll(rin)
C8_NotFound == rpc = "done" /\ ~res_result.found

C8_NotFoundReturned == C8_Infeasible ~> C8_NotFound

(***************************************************************************)
(* C9: a returned solution has num_series >= 1 and, in even mode, an even  *)
(* num_parallel; in even mode every count tried is even, starting at 2.    *)
(***************************************************************************)
C9_SeriesAndEven ==
    /\ rpc = "done" =>
          /\ res_result.num_ser >= 1
          /\ rin.num_even => res_result.num_par % 2 = 0
    /\ (rpc = "loop" /\ rin.num_even /\ has_next(npar_iter)) =>
          /\ get_next(npar_iter) % 2 = 0
          /\ get_next(npar_iter) >= 2
          /\ (npar_iter.low = 0 /\ npar_iter.high = -1) => get_next(npar_iter) = 2

\* an even-mode solution with more than two resistors in parallel and in series
C9_Witness ==
    /\ rpc = "done" /\ rin.num_even
    /\ res_result.num_par > 2 /\ res_result.num_ser > 1

(***************************************************************************)
(* C10: for a returned solution unit_width * num_parallel lies within      *)
(* [width_min, width_max] (original statement); the unit width alone lies  *)
(* within the bounds taken on the resolution grid,                         *)
(* round(width_min / res) <= unit_width / res <= round(width_max / res)    *)
(* (amended statement).  Widths are compared in half resolution units.     *)
(***************************************************************************)
C10_WidthTimesParallel ==
    rpc = "done" =>
        /\ rin.wmin2 <= 2 * res_result.w * res_result.num_par
        /\ 2 * res_result.w * res_result.num_par <= rin.wmax2

C10_UnitWidthOnGrid ==
    rpc = "done" =>
        /\ RoundDiv(rin.wmin2, 2) <= res_result.w
        /\ res_result.w <= RoundDiv(rin.wmax2, 2)

\* a solution whose width times the parallel count exceeds the maximum width
C10_Witness ==
    /\ rpc = "done"
    /\ 2 * res_result.w * res_result.num_par > rin.wmax2
    /\ res_result.num_par > 1

(***************************************************************************)
(* C11: for a returned solution the per-device length, after the series    *)
(* correction, lies within [length_min, length_max], also when             *)
(* num_series > 1.  Lengths are compared in half resolution units.         *)
(***************************************************************************)
C11_LengthWithinBounds ==
    rpc = "done" =>
        /\ rin.lmin2 <= 2 * res_result.l
        /\ 2 * res_result.l <= rin.lmax2

(***************************************************************************)
(* C12: when the length found exceeds the maximum device length,           *)
(* num_series = ceil(l / max_length) > 1 and the per-device length is      *)
(* round(l / num_series) on the resolution grid, in the unit of the        *)
(* no-series case, so that unit_length * num_series is within the rounding *)
(* error (half a resolution unit per device) of l.                         *)
(***************************************************************************)
C12_SeriesLength ==
    (rpc = "done" /\ res_result.lopt_unit > lmax_unit(rin)) =>
        /\ res_result.num_ser = CeilDiv(res_result.lopt_unit, lmax_unit(rin))
        /\ res_result.num_ser > 1
        /\ res_result.l = RoundDiv(res_result.lopt_unit, res_result.num_ser)
        /\ 2 * res_result.l * res_result.num_ser <= 2 * res_result.lopt_unit + res_result.num_ser
        /\ 2 * res_result.l * res_result.num_ser >= 2 * res_result.lopt_unit - res_result.num_ser

(***************************************************************************)
(* C13: for each via type the accepted (rows, cols) has the largest        *)
(* rows*cols among the combinations with 1 <= cols <= floor((box_w +       *)
(* sp_floor_x) / (via_w + sp_floor_x)), 1 <= rows <= floor((box_h +        *)
(* sp_floor_y) / (via_h + sp_floor_y)) and a spacing of the regime of      *)
(* (rows, cols) for which both layers have a passing enclosure entry.      *)
(***************************************************************************)
MaxCols(r) == (w + SpMin(r, 1)) \div (r.dim[1] + SpMin(r, 1))
MaxRows(r) == (h + SpMin(r, 2)) \div (r.dim[2] + SpMin(r, 2))

\* the feasible combinations <<cols, rows, spacing>> of rules r in the box
FeasibleCombos(r) ==
    { c \in UNION { { <<nx, ny, sp>> : sp \in SeqToSet(SpCombo(r, nx, ny)) } :
                    nx \in 1..MaxCols(r), ny \in 1..MaxRows(r) } :
        ComboFeasible(r, c[1], c[2], c[3]) }

C13_CountOptimal ==
    vpc = "done" =>
        \A i \in 1..Len(drc) :
            drc[i].kind = "ok" =>
                LET o == TypeOpt(drc[i], bot_dir, top_dir, w, h, extend)
                    fc == FeasibleCombos(drc[i])
                IN  /\ o.ok <=> fc # {}
                    /\ o.ok => <<o.opt_nxy[1], o.opt_nxy[2], o.opt_sp>> \in fc
                    /\ \A c \in fc : c[1] * c[2] <= o.opt_nxy[1] * o.opt_nxy[2]

\* a type whose optimum is below the largest count tried: the combinations
\* with more vias all fail an enclosure rule
C13_Witness ==
    /\ vpc = "done"
    /\ \E i \in 1..Len(drc) :
          /\ drc[i].kind = "ok"
          /\ LET o == TypeOpt(drc[i], bot_dir, top_dir, w, h, extend)
             IN  /\ o.ok
                 /\ o.opt_nxy[1] * o.opt_nxy[2] >= 2
                 /\ o.opt_nxy[1] * o.opt_nxy[2] < MaxCols(drc[i]) * MaxRows(drc[i])

(***************************************************************************)
(* C14: within one via type, when several feasible (rows, cols, spacing)   *)
(* combinations share the largest count, the accepted one has the smallest *)
(* required metal area among them: none of them has an area <= on both     *)
(* layers and < on one (original statement).  Amended: the accepted one is the first of them   *)
(* in the order of the search, more columns first and then the order of    *)
(* the spacing list, whatever its metal area.                              *)
(***************************************************************************)
\* the required metal dimensions of a feasible combination
ComboMdim(r, c) == Combo(r, c[1], c[2], c[3], bot_dir, top_dir, w, h, extend).opt_mdim_list

\* the feasible combinations of rules r with the largest count
BestCountCombos(r) ==
    { c \in FeasibleCombos(r) :
        \A d \in FeasibleCombos(r) : d[1] * d[2] <= c[1] * c[2] }

C14_SmallestAreaInType ==
    vpc = "done" =>
        \A i \in 1..Len(drc) :
            drc[i].kind = "ok" =>
                LET o == TypeOpt(drc[i], bot_dir, top_dir, w, h, extend)
                IN  o.ok =>
                        \A c \in BestCountCombos(drc[i]) :
                            ~AreaLeBothLtOne(ComboMdim(drc[i], c), o.opt_mdim_list)

\* position of spacing sp in the list sps (0 when absent)
SpIndex(sps, sp) ==
    IF \E k \in 1..Len(sps) : sps[k] = sp
    THEN CHOOSE k \in 1..Len(sps) : sps[k] = sp /\ \A j \in 1..(k - 1) : sps[j] # sp
    ELSE 0

C14_FirstInSearchOrder ==
    vpc = "done" =>
        \A i \in 1..Len(drc) :
            drc[i].kind = "ok" =>
                LET o == TypeOpt(drc[i], bot_dir, top_dir, w, h, extend)
                IN  o.ok =>
                        \A c \in BestCountCombos(drc[i]) :
                            \/ c[1] < o.opt_nxy[1]
                            \/ /\ c[1] = o.opt_nxy[1]
                               /\ SpIndex(SpCombo(drc[i], c[1], c[2]), c[3])
                                    >= SpIndex(SpCombo(drc[i], c[1], c[2]), o.opt_sp)

\* a type with a feasible combination of the same count as the accepted one
\* whose metal area is <= on both layers and < on one
C14_Witness ==
    /\ vpc = "done"
    /\ \E i \in 1..Len(drc) :
          /\ drc[i].kind = "ok"
          /\ LET o == TypeOpt(drc[i], bot_dir, top_dir, w, h, extend)
             IN  /\ o.ok
                 /\ \E c \in BestCountCombos(drc[i]) :
                       AreaLeBothLtOne(ComboMdim(drc[i], c), o.opt_mdim_list)

(***************************************************************************)
(* C15: for a parallel count that passes the pre-check, the inner width    *)
(* search over the even widths between the minimum width rounded up to     *)
(* even and the maximum width rounded down to even returns the smallest    *)
(* feasible width (long enough and within every divided current limit)    *)
(* with its length, and "no solution" only if no width of the range is     *)
(* feasible.                                                               *)
(***************************************************************************)
\* the even widths of the range that are feasible at parallel count npar
FeasibleWidths(r, npar) ==
    { wd \in wmin_unit(r)..wmax_unit(r) :
        /\ wd % 2 = 0
        /\ CeilDiv(r.res_targ * npar * wd, r.rsq)
              >= Max2(lmin_unit(r), CeilDiv(r.min_nsq2 * wd, 2))
        /\ ~EmViolated(r, 2 * wd, npar) }

\* the inner search is about to run for the count get_next(npar_iter)
InnerSearchRuns ==
    /\ rpc = "loop"
    /\ has_next(npar_iter)
    /\ ~PreCheckFails(rin, get_next(npar_iter))

C15_SmallestFeasibleWidth ==
    InnerSearchRuns =>
        LET npar == get_next(npar_iter)
            fw == FeasibleWidths(rin, npar)
            it == WInfo(rin, npar)
        IN  /\ it.saved <=> fw # {}
            /\ it.saved =>
                  /\ it.save_info[2] \in fw
                  /\ \A wd \in fw : it.save_info[2] <= wd
                  /\ it.save_info[3] = CeilDiv(rin.res_targ * npar * it.save_info[2], rin.rsq)

(***************************************************************************)
(* C16: the returned num_parallel is the smallest feasible count of the    *)
(* stepping sequence (2, 4, 6, ... in even mode, else 1, 2, 3, ...), a     *)
(* count being feasible when it passes the pre-check at the maximum width  *)
(* and has a feasible width; an infeasible count moves the outer search to *)
(* a larger count, a feasible count is saved and followed by a smaller     *)
(* count, and the returned width and length are the ones saved for the     *)
(* returned count.                                                         *)
(***************************************************************************)
FeasibleCount(r, npar) == ~PreCheckFails(r, npar) /\ FeasibleWidths(r, npar) # {}

\* one pass of the outer loop for the count get_next(npar_iter)
C16_Step ==
    (rpc = "loop" /\ npass' # npass) =>
        LET npar == get_next(npar_iter)
        IN  IF FeasibleCount(rin, npar)
            THEN /\ npar_iter'.saved
                 /\ npar_iter'.save_info[1] = npar
                 /\ has_next(npar_iter') => get_next(npar_iter') < npar
            ELSE /\ npar_iter'.saved = npar_iter.saved
                 /\ npar_iter'.save_info = npar_iter.save_info
                 /\ get_next(up(npar_iter)) <= MaxNpar => get_next(npar_iter') > npar

C16_Result ==
    rpc = "done" =>
        /\ FeasibleCount(rin, res_result.num_par)
        /\ \A n \in 1..res_result.num_par :
              (FeasibleCount(rin, n) /\ (rin.num_even => n % 2 = 0)) => n = res_result.num_par
        /\ res_result.w = npar_iter.save_info[2]
        /\ res_result.lopt_unit = npar_iter.save_info[3]
        /\ npar_iter.save_info[1] = res_result.num_par

C16_SmallestFeasibleCount == [][C16_Step /\ C16_Result']_vars

(***************************************************************************)
(* C17: in the pre-check and in the inner search a current kind makes the  *)
(* candidate infeasible exactly when the provider's limit for it is        *)
(* greater than zero and smaller than the requested current divided by the *)
(* parallel count; a limit of zero or infinity, or a requested current of  *)
(* zero, never makes a candidate infeasible.                               *)
(***************************************************************************)
CurrentKinds == 1..3

\* the claim's condition for kind k at a width of w2 half units:
\* 0 < limit < current / npar, the quotient compared exactly
KindBlocks(r, k, w2, npar) ==
    LET lim == EmLimit(r.em[k], w2)
    IN  IF lim.inf \/ lim.val = 0 \/ r.cur[k] = 0
        THEN FALSE
        ELSE lim.val > 0 /\ npar * lim.val < r.cur[k]

AnyKindBlocks(r, w2, npar) == \E k \in CurrentKinds : KindBlocks(r, k, w2, npar)

\* no kind can ever block: each limit is zero or infinite or its current zero
NoKindCanBlock(r) ==
    \A k \in CurrentKinds : r.em[k] \in {0, -1} \/ r.cur[k] = 0

NoCurrents(r) == [r EXCEPT !.cur = <<0, 0, 0>>, !.em = <<-1, -1, -1>>]

C17_CurrentRule ==
    /\ (rpc = "loop" /\ has_next(npar_iter)) =>
          LET npar == get_next(npar_iter)
          IN  /\ PreCheckFails(rin, npar) <=> AnyKindBlocks(rin, rin.wmax2, npar)
              /\ \A wd \in wmin_unit(rin)..wmax_unit(rin) :
                    EmViolated(rin, 2 * wd, npar) <=> AnyKindBlocks(rin, 2 * wd, npar)
              /\ NoKindCanBlock(rin) =>
                    /\ ~PreCheckFails(rin, npar)
                    /\ WInfo(rin, npar) = WInfo(NoCurrents(rin), npar)
    /\ rpc = "done" =>
          /\ ~AnyKindBlocks(rin, rin.wmax2, res_result.num_par)
          /\ ~AnyKindBlocks(rin, 2 * res_result.w, res_result.num_par)

\* a design was returned for more than one resistor in parallel although one
\* kind has a zero limit and a nonzero current, one an infinite limit, and
\* the third sits exactly at its limit or blocked a smaller count
C17_Witness ==
    /\ rpc = "done"
    /\ res_result.num_par > 1
    /\ \E k \in CurrentKinds : rin.em[k] = 0 /\ rin.cur[k] > 0
    /\ \E k \in CurrentKinds : rin.em[k] = -1
    /\ \E k \in CurrentKinds : KindBlocks(rin, k, rin.wmax2, 1)

\* a returned design with a kind exactly at its limit
C17_WitnessAtLimit ==
    /\ rpc = "done"
    /\ \E k \in CurrentKinds :
          /\ rin.em[k] > 0
          /\ rin.cur[k] > 0
          /\ EmLimit(rin.em[k], 2 * res_result.w).val * res_result.num_par = rin.cur[k]

(***************************************************************************)
(* C18: on success get_via_info queries the via current limits with, for   *)
(* each layer, the metal dimension perpendicular to that layer's current   *)
(* direction as the wire width (for the top layer also when top_dir is     *)
(* forced equal to bot_dir), and with the array flag true exactly when     *)
(* rows > 1 or cols > 1; each aggregate limit is the per-via limit times   *)
(* rows * cols.                                                            *)
(***************************************************************************)
\* dimension of a metal rectangle across a wire running in direction dir
PerpDim(mdim, dir) == IF dir = "x" THEN mdim[2] ELSE mdim[1]

C18_EmQuery ==
    (vpc = "info" /\ via_info.found /\ ValidDirs) =>
        LET ntot == via_info.num_rows * via_info.num_cols
        IN  /\ via_info.bw = PerpDim(via_result.best_mdim_list[1], bot_dir)
            /\ via_info.tw = PerpDim(via_result.best_mdim_list[2], top_dir)
            /\ via_info.array <=> (via_info.num_rows > 1 \/ via_info.num_cols > 1)
            /\ via_info.idc = via_info.per_via[1] * ntot
            /\ via_info.iac_rms = via_info.per_via[2] * ntot
            /\ via_info.iac_peak = via_info.per_via[3] * ntot

(***************************************************************************)
(* C19: on each layer and axis the emitted per-side enclosure is           *)
(* e = floor((metal_extent - array_extent) / 2), emitted identically       *)
(* left/right and bottom/top, with 0 <= e and                              *)
(* array_extent + 2e <= metal_extent <= array_extent + 2e + 1; truncation  *)
(* never drops below the rule: each layer has an enclosure entry (of the   *)
(* list extended by the override when it applies) whose horizontal and     *)
(* vertical values are both <= the emitted per-side enclosures.            *)
(***************************************************************************)
\* enc = <<left, right, bottom, top>> emitted for a layer of metal mdim
EnclosureTruncated(enc, mdim, adim) ==
    /\ enc[1] = enc[2] /\ enc[3] = enc[4]
    /\ \A ax \in 1..2 :
          LET e == enc[2 * ax]
          IN  /\ 0 <= e
              /\ 2 * e <= mdim[ax] - adim[ax]
              /\ mdim[ax] - adim[ax] <= 2 * e + 1

EnclosureAboveRule(enc, entries) ==
    \E entry \in entries : entry[1] <= enc[1] /\ entry[2] <= enc[3]

AlongAxis(dir) == IF dir = "x" THEN 1 ELSE 2
AcrossAxis(dir) == IF dir = "x" THEN 2 ELSE 1

\* the entries of a layer that the array satisfies within the box
SatisfiableEntries(entries, dir, adim) ==
    LET box == <<w, h>>
    IN  {enc \in entries :
            /\ adim[AcrossAxis(dir)] + 2 * enc[AcrossAxis(dir)] <= box[AcrossAxis(dir)]
            /\ extend \/ adim[AlongAxis(dir)] + 2 * enc[AlongAxis(dir)] <= box[AlongAxis(dir)]}

SetMin(S) == CHOOSE x \in S : \A y \in S : x <= y

LayerMetalAsClaimed(mdim, entries, dir, adim) ==
    LET box == <<w, h>>
        sat == SatisfiableEntries(entries, dir, adim)
        ext == {adim[AlongAxis(dir)] + 2 * enc[AlongAxis(dir)] : enc \in sat}
    IN  /\ sat # {}
        /\ mdim[AcrossAxis(dir)] = box[AcrossAxis(dir)]
        /\ mdim[AlongAxis(dir)] = Max2(box[AlongAxis(dir)], SetMin(ext))
        /\ ~extend => mdim = box
        /\ extend => mdim[1] >= w /\ mdim[2] >= h

C20_MetalDimensions ==
    (Returned /\ ValidDirs) =>
        LET r == ResultRules
            adim == via_result.best_adim
        IN  /\ LayerMetalAsClaimed(via_result.best_mdim_list[1],
                                   LayerEntries(r.encb, r.has_arrb, r.arr_encb, r.arr_testb),
                                   bot_dir, adim)
            /\ LayerMetalAsClaimed(via_result.best_mdim_list[2],
                                   LayerEntries(r.enct, r.has_arrt, r.arr_enct, r.arr_testt),
                                   top_dir, adim)

\* a layer extended beyond the box, by the smaller of two satisfiable entries
C20_Witness ==
    /\ Returned /\ ValidDirs /\ extend
    /\ via_result.best_mdim_list[2][AlongAxis(top_dir)] > <<w, h>>[AlongAxis(top_dir)]
    /\ LET adim == via_result.best_adim
           sat == SatisfiableEntries(SeqToSet(ResultRules.enct), top_dir, adim)
       IN  \E e1 \in sat, e2 \in sat : e1[AlongAxis(top_dir)] < e2[AlongAxis(top_dir)]

\* a result with extend = FALSE whose metals are the box
C20_WitnessNoExtend ==
    /\ Returned /\ ValidDirs /\ ~extend
    /\ via_result.best_mdim_list = << <<w, h>>, <<w, h>> >>
    /\ via_result.best_adim[1] < w

====
